---- MODULE Spec2Model ----
(***************************************************************************)
(* Model of tsp_multiple_days.py: the multi-day schedule model compiler    *)
(* (node augmentation, Time and Counting dimensions, day-ordering          *)
(* constraints) and the solution decoder.  The routing engine is modelled  *)
(* by the set of assignments that satisfy the constraints main() posts.    *)
(***************************************************************************)
EXTENDS Integers, Sequences, FiniteSets, TLC

\* ---------------------------------------------------------------- bounds
MaxDays == 3
MaxReal == 4
MaxHour == 2
MaxLeg == 1

\* ------------------------------------------------------ program constants
disjunction_penalty == 10000000
SecondsPerHour == 3600
SecondsPerMinute == 60
DefaultService == 30
LegUnit == 1800

VARIABLES
  pc,               \* position in main()
  args,             \* parsed command line: days, start, end, service, skip_mornings
  matrix,           \* the time_details provider: num_nodes, leg
  day_start, day_end, num_days, node_service_time, overnight_time,
  Slack_Max, Capacity,
  num_nodes, night_nodes, morning_nodes, total_nodes,
  manager,          \* TRUE once the RoutingIndexManager exists
  routing,          \* TRUE once the RoutingModel exists
  time_dimension,   \* parameters of the 'Time' dimension, slack pins, cumul ranges
  disjunctions,     \* set of [index, penalty]
  count_dimension,  \* parameters of the 'Counting' dimension
  constraints,      \* constraints posted with solver.Add
  solution,         \* assignment returned by SolveWithParameters
  result,           \* decoded 'Dropped' and 'Scheduled' lists
  index,            \* cursor of the decoder walk
  flags             \* operands and value of one ordering-constraint evaluation

vars == <<pc, args, matrix, day_start, day_end, num_days, node_service_time,
          overnight_time, Slack_Max, Capacity, num_nodes, night_nodes,
          morning_nodes, total_nodes, manager, routing, time_dimension,
          disjunctions, count_dimension, constraints, solution, result,
          index, flags>>

\* ----------------------------------------------------------- small helpers
Max2(a, b) == IF a >= b THEN a ELSE b

Min2(a, b) == IF a <= b THEN a ELSE b

SeqRange(s) == {s[k] : k \in 1..Len(s)}

\* Python range(lo, hi) as a sequence
PyRange(lo, hi) == [k \in 1..Max2(hi - lo, 0) |-> lo + k - 1]

NoDimension == [created |-> FALSE]

NoSolution == [found |-> FALSE]

NoFlags == [set |-> FALSE]

\* ------------------------------------------------- RoutingIndexManager
\* one vehicle, starts [0], ends [1]: the end node takes the last index
NodeToIndex(total, node) ==
  IF node = 0 THEN 0
  ELSE IF node = 1 THEN total - 1
  ELSE node - 1

IndexToNode(total, idx) ==
  IF idx = 0 THEN 0
  ELSE IF idx = total - 1 THEN 1
  ELSE idx + 1

RoutingStart == 0

RoutingEnd(total) == total - 1

RoutingSize(total) == total - 1

IsStart(idx) == idx = RoutingStart

IsEnd(total, idx) == idx = RoutingEnd(total)

\* --------------------------------------------------------------- Init
InitArgs ==
  [days : (0 - 1)..MaxDays, start : 0..MaxHour, end : 0..MaxHour,
   service : {DefaultService}, skip_mornings : BOOLEAN]

InitMatrix == [num_nodes : 2..MaxReal, leg : {k * LegUnit : k \in 0..MaxLeg}]

Blank ==
  /\ day_start = 0 /\ day_end = 0 /\ num_days = 0
  /\ node_service_time = 0 /\ overnight_time = 0
  /\ Slack_Max = 0 /\ Capacity = 0
  /\ num_nodes = 0 /\ night_nodes = <<>> /\ morning_nodes = <<>>
  /\ total_nodes = 0
  /\ manager = FALSE /\ routing = FALSE
  /\ time_dimension = NoDimension
  /\ disjunctions = {}
  /\ count_dimension = NoDimension
  /\ constraints = {}
  /\ solution = NoSolution
  /\ result = [Dropped |-> <<>>, Scheduled |-> <<>>]
  /\ index = 0

Init ==
  /\ pc = "parsed"
  /\ args \in InitArgs
  /\ matrix \in InitMatrix
  /\ Blank
  /\ flags = NoFlags

\* ------------------------------------------------------ lines 36-41
\* day_start/day_end, then the days check: a failed assert ends main()
CheckDaysMut ==
  /\ pc = "parsed"
  /\ day_start' = args.start * SecondsPerHour
  /\ day_end' = args.end * SecondsPerHour
  /\ pc' = "checked"
  /\ UNCHANGED <<args, matrix, num_days, node_service_time, overnight_time,
                 Slack_Max, Capacity, num_nodes, night_nodes, morning_nodes,
                 total_nodes, manager, routing, time_dimension, disjunctions,
                 count_dimension, constraints, solution, result, index, flags>>

CheckDays ==
  /\ pc = "parsed"
  /\ day_start' = args.start * SecondsPerHour
  /\ day_end' = args.end * SecondsPerHour
  /\ pc' = IF args.days <= 0 THEN "assertion_error" ELSE "checked"
  /\ UNCHANGED <<args, matrix, num_days, node_service_time, overnight_time,
                 Slack_Max, Capacity, num_nodes, night_nodes, morning_nodes,
                 total_nodes, manager, routing, time_dimension, disjunctions,
                 count_dimension, constraints, solution, result, index, flags>>

\* ------------------------------------------------------ lines 43-65
SlackMaxOfMut(ds, de) == de - ds

SlackMaxOf(ds, de) == (de - ds) - ds

NightRange(n, nd) == PyRange(n, n + nd)

MorningRangeMut(n, nd, skip) == IF skip THEN <<>> ELSE PyRange(n, n + nd)

MorningRange(n, nd, skip) ==
  IF skip THEN <<>> ELSE PyRange(n + nd, n + nd + nd)

Augment ==
  /\ pc = "checked"
  /\ num_days' = args.days - 1
  /\ node_service_time' = args.service * SecondsPerMinute
  /\ overnight_time' = day_start - day_end
  /\ Slack_Max' = SlackMaxOf(day_start, day_end)
  /\ Capacity' = day_end
  /\ num_nodes' = matrix.num_nodes
  /\ night_nodes' = NightRange(num_nodes', num_days')
  /\ morning_nodes' = MorningRange(num_nodes', num_days', args.skip_mornings)
  /\ total_nodes' = num_nodes' + Len(night_nodes') + Len(morning_nodes')
  /\ manager' = TRUE
  /\ routing' = TRUE
  /\ pc' = "model"
  /\ UNCHANGED <<args, matrix, day_start, day_end, time_dimension,
                 disjunctions, count_dimension, constraints, solution, result,
                 index, flags>>

\* ------------------------------------------------------ time_details
\* travel time between two locations of the matrix provider; the synthetic
\* nodes stand at the depot (node 0)
Location(node) == IF node >= num_nodes THEN 0 ELSE node

TravelTime(from_node, to_node) ==
  IF Location(from_node) = Location(to_node) THEN 0 ELSE matrix.leg

\* T.time_callback(manager, node_service_time, overnight_time, night_nodes,
\*                 morning_nodes, from_index, to_index)
TimeCallback(from_node, to_node) ==
  IF to_node \in SeqRange(night_nodes)
    THEN TravelTime(from_node, to_node) + overnight_time
  ELSE IF to_node \in SeqRange(morning_nodes) THEN 0
  ELSE TravelTime(from_node, to_node) + node_service_time

\* ------------------------------------------------------ lines 101-108
AddTimeDimension ==
  /\ pc = "model"
  /\ time_dimension' =
       [created |-> TRUE,
        slack_max |-> Slack_Max,
        capacity |-> Capacity,
        fix_start_cumul_to_zero |-> FALSE,
        slack_zero |-> {},
        cumul |-> [i \in 0..(total_nodes - 1) |-> <<0, Capacity>>]]
  /\ pc' = "slack"
  /\ UNCHANGED <<args, matrix, day_start, day_end, num_days,
                 node_service_time, overnight_time, Slack_Max, Capacity,
                 num_nodes, night_nodes, morning_nodes, total_nodes, manager,
                 routing, disjunctions, count_dimension, constraints,
                 solution, result, index, flags>>

\* ------------------------------------------------------ lines 112-119
SlackPinned(total, n, mornings) ==
  {NodeToIndex(total, node) : node \in 2..(n - 1)}
    \cup {NodeToIndex(total, node) : node \in SeqRange(mornings)}

SuppressSlack ==
  /\ pc = "slack"
  /\ time_dimension' =
       [time_dimension EXCEPT
          !.slack_zero = SlackPinned(total_nodes, num_nodes, morning_nodes)]
  /\ pc' = "disjunctions"
  /\ UNCHANGED <<args, matrix, day_start, day_end, num_days,
                 node_service_time, overnight_time, Slack_Max, Capacity,
                 num_nodes, night_nodes, morning_nodes, total_nodes, manager,
                 routing, disjunctions, count_dimension, constraints,
                 solution, result, index, flags>>

\* ------------------------------------------------------ lines 122-130
DisjunctionsOf(total, n, nights, mornings) ==
  {[index |-> NodeToIndex(total, node), penalty |-> disjunction_penalty] :
      node \in 2..(n - 1)}
    \cup {[index |-> NodeToIndex(total, node), penalty |-> 0] :
            node \in SeqRange(nights)}
    \cup {[index |-> NodeToIndex(total, node), penalty |-> 0] :
            node \in SeqRange(mornings)}

AddDisjunctions ==
  /\ pc = "disjunctions"
  /\ disjunctions' =
       DisjunctionsOf(total_nodes, num_nodes, night_nodes, morning_nodes)
  /\ pc' = "windows"
  /\ UNCHANGED <<args, matrix, day_start, day_end, num_days,
                 node_service_time, overnight_time, Slack_Max, Capacity,
                 num_nodes, night_nodes, morning_nodes, total_nodes, manager,
                 routing, time_dimension, count_dimension, constraints,
                 solution, result, index, flags>>

\* ------------------------------------------------------ lines 132-148
\* CumulVar(index).SetRange / SetMin / SetMax narrow the variable's domain
SetRange(dom, lo, hi) == <<Max2(dom[1], lo), Min2(dom[2], hi)>>

\* the nodes that get the [day_start, day_end] window: lines 133 and 138
WindowedNodesMut(n, total) == 2..(n - 1)

WindowedNodes(n, total) == (2..(n - 1)) \cup (n..(total - 1))

TimeWindows(cumul, total, n, ds, de) ==
  [i \in DOMAIN cumul |->
     IF IndexToNode(total, i) \in WindowedNodes(n, total)
       THEN SetRange(cumul[i], ds, de)
     ELSE IF IsStart(i) THEN SetRange(cumul[i], ds, cumul[i][2])
     ELSE IF IsEnd(total, i) THEN SetRange(cumul[i], cumul[i][1], de)
     ELSE cumul[i]]

AddTimeWindows ==
  /\ pc = "windows"
  /\ time_dimension' =
       [time_dimension EXCEPT
          !.cumul = TimeWindows(time_dimension.cumul, total_nodes, num_nodes,
                                day_start, day_end)]
  /\ pc' = "counting"
  /\ UNCHANGED <<args, matrix, day_start, day_end, num_days,
                 node_service_time, overnight_time, Slack_Max, Capacity,
                 num_nodes, night_nodes, morning_nodes, total_nodes, manager,
                 routing, disjunctions, count_dimension, constraints,
                 solution, result, index, flags>>

\* ------------------------------------------------------ lines 152-158
AddCountingDimension ==
  /\ pc = "counting"
  /\ count_dimension' =
       [created |-> TRUE,
        value |-> 1,
        capacity |-> total_nodes + 1,
        fix_start_cumul_to_zero |-> TRUE]
  /\ pc' = "ordering"
  /\ UNCHANGED <<args, matrix, day_start, day_end, num_days,
                 node_service_time, overnight_time, Slack_Max, Capacity,
                 num_nodes, night_nodes, morning_nodes, total_nodes, manager,
                 routing, time_dimension, disjunctions, constraints,
                 solution, result, index, flags>>

\* ------------------------------------------------------ lines 162-200
\* iactive >= jactive
ActiveGe(i, j) == [op |-> "active_ge", i |-> i, j |-> j]

\* iactive == i_morning_active
ActiveEq(i, j) == [op |-> "active_eq", i |-> i, j |-> j]

\* CumulVar(i) * iactive * jactive <= CumulVar(j) * iactive * jactive
CountProdLe(i, j) == [op |-> "count_prod_le", i |-> i, j |-> j]

\* CumulVar(i) + 1 == CumulVar(i_morning)
CountSucc(i, j) == [op |-> "count_succ", i |-> i, j |-> j]

\* the inner loop over j in range(i+1, len(nodes)): lines 169-176, 192-200
LoopPairs(nodes) ==
  {q \in (1..Len(nodes)) \X (1..Len(nodes)) : q[1] < q[2]}

OrderConstraintsMut(total, nodes) ==
  {CountProdLe(NodeToIndex(total, nodes[q[1]]),
               NodeToIndex(total, nodes[q[2]])) : q \in LoopPairs(nodes)}

OrderConstraints(total, nodes) ==
  UNION {{ActiveGe(NodeToIndex(total, nodes[q[1]]),
                   NodeToIndex(total, nodes[q[2]])),
          CountProdLe(NodeToIndex(total, nodes[q[1]]),
                      NodeToIndex(total, nodes[q[2]]))} :
           q \in LoopPairs(nodes)}

\* the pairing of night i with morning i: lines 178-185
PairingConstraintsMut(total, nights, mornings) ==
  {CountSucc(NodeToIndex(total, nights[i]), NodeToIndex(total, mornings[i])) :
       i \in {k \in 1..Len(nights) : k <= Len(mornings)}}

PairingConstraints(total, nights, mornings) ==
  UNION {{ActiveEq(NodeToIndex(total, nights[i]),
                   NodeToIndex(total, mornings[i])),
          CountSucc(NodeToIndex(total, nights[i]),
                    NodeToIndex(total, mornings[i]))} :
           i \in {k \in 1..Len(nights) : k <= Len(mornings)}}

AddOrderingConstraints ==
  /\ pc = "ordering"
  /\ constraints' =
       OrderConstraints(total_nodes, night_nodes)
         \cup PairingConstraints(total_nodes, night_nodes, morning_nodes)
         \cup OrderConstraints(total_nodes, morning_nodes)
  /\ pc' = "solve"
  /\ UNCHANGED <<args, matrix, day_start, day_end, num_days,
                 node_service_time, overnight_time, Slack_Max, Capacity,
                 num_nodes, night_nodes, morning_nodes, total_nodes, manager,
                 routing, time_dimension, disjunctions, count_dimension,
                 solution, result, index, flags>>

\* ------------------------------------------------------ routing engine
\* The assignments SolveWithParameters may return: a route from Start to End
\* through some of the optional indices, every posted constraint satisfied.

\* ActiveVar, CumulVar of 'Counting', and the product form of lines 175-176
ProductLeqMut(ci, ai, aj, cj) == ci * ai <= cj * aj

ProductLeq(ci, ai, aj, cj) == ci * ai * aj <= cj * ai * aj

IsActivationConstraint(c) == c.op \in {"active_ge", "active_eq"}

HoldsActivation(c, act) ==
  IF c.op = "active_ge" THEN act[c.i] >= act[c.j] ELSE act[c.i] = act[c.j]

HoldsCount(c, act, cnt) ==
  IF c.op = "count_prod_le"
    THEN ProductLeq(cnt[c.i], act[c.i], act[c.j], cnt[c.j])
    ELSE cnt[c.i] + 1 = cnt[c.j]

CountConstraints == {c \in constraints : ~IsActivationConstraint(c)}

\* every count constraint whose two variables have a value holds
CountOK(act, cnt) ==
  \A c \in CountConstraints :
     (c.i \in DOMAIN cnt /\ c.j \in DOMAIN cnt) => HoldsCount(c, act, cnt)

OptionalIdx == {d.index : d \in disjunctions}

InnerIdx == 1..(total_nodes - 2)

ActiveOf(S) ==
  [i \in 0..(total_nodes - 1) |->
     IF i \in S \/ IsStart(i) \/ IsEnd(total_nodes, i) THEN 1 ELSE 0]

\* 'Counting' along the route: constant transit, no slack, zero at Start
RouteCount(route) ==
  [i \in SeqRange(route) |->
     count_dimension.value * ((CHOOSE k \in 1..Len(route) : route[k] = i) - 1)]

\* a count constraint can still be met by a route that begins with prefix and
\* places the nodes of rest after it
PrefixOK(prefix, rest, act) ==
  LET cnt == RouteCount(prefix)
      free == {count_dimension.value * q :
                 q \in Len(prefix)..(Len(prefix) + Cardinality(rest) - 1)}
  IN \A c \in CountConstraints :
        IF c.i \in DOMAIN cnt /\ c.j \in DOMAIN cnt
          THEN HoldsCount(c, act, cnt)
        ELSE IF c.i \in DOMAIN cnt /\ c.j \in rest
          THEN \E x \in free : HoldsCount(c, act, cnt @@ (c.j :> x))
        ELSE IF c.j \in DOMAIN cnt /\ c.i \in rest
          THEN \E x \in free : HoldsCount(c, act, cnt @@ (c.i :> x))
        ELSE TRUE

\* the orders in which the active indices can follow Start
RECURSIVE Routes(_, _, _)
Routes(prefix, rest, act) ==
  IF rest = {} THEN {prefix \o <<RoutingEnd(total_nodes)>>}
  ELSE UNION {Routes(Append(prefix, x), rest \ {x}, act) :
                x \in {y \in rest :
                         PrefixOK(Append(prefix, y), rest \ {y}, act)}}

\* indices off the route whose count is read by a posted constraint
LooseCountIdx(route) ==
  ({c.i : c \in CountConstraints} \cup {c.j : c \in CountConstraints})
    \ SeqRange(route)

\* the counts of inactive nodes are free in 0..capacity: some choice of them
\* must satisfy the posted count constraints
RECURSIVE LooseCountsExist(_, _, _)
LooseCountsExist(todo, act, cnt) ==
  IF todo = {} THEN TRUE
  ELSE LET tied == {x \in todo : \E c \in CountConstraints :
                        \/ (c.i = x /\ c.j \in DOMAIN cnt)
                        \/ (c.j = x /\ c.i \in DOMAIN cnt)}
           pick == IF tied = {} THEN todo ELSE tied
           v == CHOOSE x \in pick : \A y \in pick : x <= y
       IN \E x \in 0..count_dimension.capacity :
             /\ CountOK(act, cnt @@ (v :> x))
             /\ LooseCountsExist(todo \ {v}, act, cnt @@ (v :> x))

\* 'Time' along the route: cumul(next) = cumul + slack + transit
TimeTransit(route, k) ==
  TimeCallback(IndexToNode(total_nodes, route[k]),
               IndexToNode(total_nodes, route[k + 1]))

SlackCap(i) ==
  IF i \in time_dimension.slack_zero THEN 0 ELSE time_dimension.slack_max

RECURSIVE Forward(_, _)
Forward(route, k) ==
  IF k = 1 THEN time_dimension.cumul[route[1]]
  ELSE LET prev == Forward(route, k - 1)
           dom == time_dimension.cumul[route[k]]
       IN <<Max2(dom[1], prev[1] + TimeTransit(route, k - 1)),
            Min2(dom[2], prev[2] + TimeTransit(route, k - 1)
                           + SlackCap(route[k - 1]))>>

RECURSIVE Backward(_, _)
Backward(route, k) ==
  IF k = Len(route) THEN Forward(route, k)
  ELSE LET nxt == Backward(route, k + 1)
           fwd == Forward(route, k)
       IN <<Max2(fwd[1], nxt[1] - TimeTransit(route, k) - SlackCap(route[k])),
            Min2(fwd[2], nxt[2] - TimeTransit(route, k))>>

DomainsNonEmpty ==
  /\ time_dimension.slack_max >= 0
  /\ \A i \in DOMAIN time_dimension.cumul :
        time_dimension.cumul[i][1] <= time_dimension.cumul[i][2]

TimeFeasible(route) ==
  \A k \in 1..Len(route) : Forward(route, k)[1] <= Forward(route, k)[2]

NextOf(route) ==
  [i \in 0..(RoutingSize(total_nodes) - 1) |->
     IF i \in SeqRange(route)
       THEN route[(CHOOSE k \in 1..Len(route) : route[k] = i) + 1]
       ELSE i]

\* ------------------------------------------------------ lines 210-226
Solve ==
  /\ pc = "solve"
  /\ DomainsNonEmpty
  /\ \E S \in SUBSET InnerIdx :
       /\ (InnerIdx \ OptionalIdx) \subseteq S
       /\ \A c \in constraints :
             IsActivationConstraint(c) => HoldsActivation(c, ActiveOf(S))
       /\ \E route \in Routes(<<RoutingStart>>, S, ActiveOf(S)) :
               /\ count_dimension.value * (Len(route) - 1)
                     <= count_dimension.capacity
               /\ CountOK(ActiveOf(S), RouteCount(route))
               /\ TimeFeasible(route)
               /\ LooseCountsExist(LooseCountIdx(route), ActiveOf(S),
                                    RouteCount(route)) = TRUE
               /\ solution' =
                      [found |-> TRUE,
                       next |-> NextOf(route),
                       count |-> RouteCount(route),
                       time_min |-> [i \in SeqRange(route) |->
                          Backward(route,
                             CHOOSE k \in 1..Len(route) : route[k] = i)[1]],
                       time_max |-> [i \in SeqRange(route) |->
                          Backward(route,
                             CHOOSE k \in 1..Len(route) : route[k] = i)[2]]]
  /\ pc' = "dropped"
  /\ UNCHANGED <<args, matrix, day_start, day_end, num_days,
                 node_service_time, overnight_time, Slack_Max, Capacity,
                 num_nodes, night_nodes, morning_nodes, total_nodes, manager,
                 routing, time_dimension, disjunctions, count_dimension,
                 constraints, result, index, flags>>

\* "no solution found": infeasible model or the time limit ran out
SolveFail ==
  /\ pc = "solve"
  /\ solution' = NoSolution
  /\ pc' = "done"
  /\ UNCHANGED <<args, matrix, day_start, day_end, num_days,
                 node_service_time, overnight_time, Slack_Max, Capacity,
                 num_nodes, night_nodes, morning_nodes, total_nodes, manager,
                 routing, time_dimension, disjunctions, count_dimension,
                 constraints, result, index, flags>>

\* ------------------------------------------------------ lines 8-11
\* time(hour=ts//3600, second=ts%3600//60).strftime("%H:%S")
timedelta_format(ts) == <<ts \div 3600, (ts % 3600) \div 60>>

\* ------------------------------------------------------ lines 234-242
SyntheticNode(node) ==
  node \in SeqRange(night_nodes) \/ node \in SeqRange(morning_nodes)

RECURSIVE DroppedFromMut(_)
DroppedFromMut(idx) ==
  IF idx >= RoutingSize(total_nodes) THEN <<>>
  ELSE IF IsStart(idx) \/ IsEnd(total_nodes, idx)
    THEN DroppedFromMut(idx + 1)
  ELSE IF solution.next[idx] = idx
    THEN <<IndexToNode(total_nodes, idx)>> \o DroppedFromMut(idx + 1)
  ELSE DroppedFromMut(idx + 1)

RECURSIVE DroppedFrom(_)
DroppedFrom(idx) ==
  IF idx >= RoutingSize(total_nodes) THEN <<>>
  ELSE IF IsStart(idx) \/ IsEnd(total_nodes, idx) THEN DroppedFrom(idx + 1)
  ELSE IF SyntheticNode(IndexToNode(total_nodes, idx))
    THEN DroppedFrom(idx + 1)
  ELSE IF solution.next[idx] = idx
    THEN <<IndexToNode(total_nodes, idx)>> \o DroppedFrom(idx + 1)
  ELSE DroppedFrom(idx + 1)

DecodeDropped ==
  /\ pc = "dropped"
  /\ result' = [result EXCEPT !.Dropped = DroppedFrom(0)]
  /\ index' = RoutingStart
  /\ pc' = "walk"
  /\ UNCHANGED <<args, matrix, day_start, day_end, num_days,
                 node_service_time, overnight_time, Slack_Max, Capacity,
                 num_nodes, night_nodes, morning_nodes, total_nodes, manager,
                 routing, time_dimension, disjunctions, count_dimension,
                 constraints, solution, flags>>

\* ------------------------------------------------------ lines 244-270
NodeLabel(node) ==
  IF node \in SeqRange(night_nodes)
    THEN [text |-> "Overnight at", node |-> node]
  ELSE IF node \in SeqRange(morning_nodes)
    THEN [text |-> "Starting day at", node |-> node]
  ELSE [text |-> "", node |-> node]

ScheduledEntry(label, idx) ==
  <<label, solution.count[idx],
    timedelta_format(solution.time_min[idx]),
    timedelta_format(solution.time_max[idx])>>

WalkStep ==
  /\ pc = "walk"
  /\ ~IsEnd(total_nodes, index)
  /\ result' =
       [result EXCEPT !.Scheduled =
          Append(@, ScheduledEntry(NodeLabel(IndexToNode(total_nodes, index)),
                                   index))]
  /\ index' = solution.next[index]
  /\ UNCHANGED <<pc, args, matrix, day_start, day_end, num_days,
                 node_service_time, overnight_time, Slack_Max, Capacity,
                 num_nodes, night_nodes, morning_nodes, total_nodes, manager,
                 routing, time_dimension, disjunctions, count_dimension,
                 constraints, solution, flags>>

WalkEndMut ==
  /\ pc = "walk"
  /\ IsEnd(total_nodes, index)
  /\ pc' = "done"
  /\ UNCHANGED <<args, matrix, day_start, day_end, num_days,
                 node_service_time, overnight_time, Slack_Max, Capacity,
                 num_nodes, night_nodes, morning_nodes, total_nodes, manager,
                 routing, time_dimension, disjunctions, count_dimension,
                 constraints, solution, result, index, flags>>

WalkEnd ==
  /\ pc = "walk"
  /\ IsEnd(total_nodes, index)
  /\ result' =
       [result EXCEPT !.Scheduled =
          Append(@, ScheduledEntry(
                      [text |-> "", node |-> IndexToNode(total_nodes, index)],
                      index))]
  /\ pc' = "done"
  /\ UNCHANGED <<args, matrix, day_start, day_end, num_days,
                 node_service_time, overnight_time, Slack_Max, Capacity,
                 num_nodes, night_nodes, morning_nodes, total_nodes, manager,
                 routing, time_dimension, disjunctions, count_dimension,
                 constraints, solution, index, flags>>

\* ------------------------------------------------------ lines 169-176
\* one evaluation of the product form on given flags and visit-order values
DefaultArgs ==
  [days |-> 2, start |-> 6, end |-> 18, service |-> DefaultService,
   skip_mornings |-> FALSE]

MaxTotal == MaxReal + 2 * (MaxDays - 1)

InitFlags ==
  /\ pc = "flags"
  /\ args = DefaultArgs
  /\ matrix = [num_nodes |-> 2, leg |-> 0]
  /\ Blank
  /\ \E t \in 2..MaxTotal :
       flags \in [set : {TRUE}, evaluated : {FALSE}, holds : {FALSE},
                  total : {t}, ai : {0, 1}, aj : {0, 1},
                  ci : 0..(t + 1), cj : 0..(t + 1)]

EvalOrdering ==
  /\ pc = "flags"
  /\ ~flags.evaluated
  /\ flags' = [flags EXCEPT
                 !.evaluated = TRUE,
                 !.holds = ProductLeq(flags.ci, flags.ai, flags.aj, flags.cj)]
  /\ UNCHANGED <<pc, args, matrix, day_start, day_end, num_days,
                 node_service_time, overnight_time, Slack_Max, Capacity,
                 num_nodes, night_nodes, morning_nodes, total_nodes, manager,
                 routing, time_dimension, disjunctions, count_dimension,
                 constraints, solution, result, index>>

Next ==
  \/ CheckDays
  \/ Augment
  \/ AddTimeDimension
  \/ SuppressSlack
  \/ AddDisjunctions
  \/ AddTimeWindows
  \/ AddCountingDimension
  \/ AddOrderingConstraints
  \/ Solve
  \/ SolveFail
  \/ DecodeDropped
  \/ WalkStep
  \/ WalkEnd

Spec == Init /\ [][Next]_vars

\* the decoder loop of lines 247-270 runs sequentially to its end
Walk == WalkStep \/ WalkEnd

LiveSpec == Init /\ [][Next]_vars /\ WF_vars(Walk)

NextFlags == EvalOrdering

SpecFlags == InitFlags /\ [][NextFlags]_vars

\* ================================================================ claims
Built == pc \notin {"parsed", "assertion_error", "checked", "flags"}

Solved == pc \in {"dropped", "walk", "done"} /\ solution.found

NightIdx(k) == NodeToIndex(total_nodes, night_nodes[k])

MorningIdx(k) == NodeToIndex(total_nodes, morning_nodes[k])

Active(i) == solution.next[i] # i

ActiveFlag(i) == IF Active(i) THEN 1 ELSE 0

RealIdx == {NodeToIndex(total_nodes, n) : n \in 2..(num_nodes - 1)}

\* C1: after node augmentation total_nodes is num_real + 2*(days-1), or
\* num_real + (days-1) with skip_mornings; the night range is the indices
\* num_real .. num_real+(days-1)-1, the morning range the next days-1 indices,
\* and real, night and morning ranges are pairwise disjoint and contiguous.
C1_NodeAugmentation ==
  Built =>
    LET d == args.days - 1
        real == 0..(num_nodes - 1)
        night == SeqRange(night_nodes)
        morning == SeqRange(morning_nodes)
    IN /\ args.days >= 1
       /\ num_nodes = matrix.num_nodes
       /\ total_nodes = num_nodes + (IF args.skip_mornings THEN d ELSE 2 * d)
       /\ night = num_nodes..(num_nodes + d - 1)
       /\ Len(night_nodes) = d
       /\ \A k \in 1..Len(night_nodes) : night_nodes[k] = num_nodes + k - 1
       /\ morning = IF args.skip_mornings THEN {}
                    ELSE (num_nodes + d)..(num_nodes + 2 * d - 1)
       /\ \A k \in 1..Len(morning_nodes) :
             morning_nodes[k] = num_nodes + d + k - 1
       /\ real \cap night = {} /\ real \cap morning = {}
       /\ night \cap morning = {}
       /\ real \cup night \cup morning = 0..(total_nodes - 1)

C1_Witness ==
  /\ pc = "model" /\ args.days = MaxDays /\ ~args.skip_mornings
  /\ Len(night_nodes) >= 2 /\ Len(morning_nodes) >= 2

\* C2: a run with days <= 0 stops at the days check: it never reaches node
\* augmentation, the index manager or the routing model.
C2_DaysRejected ==
  args.days <= 0 =>
    /\ pc \in {"parsed", "assertion_error", "flags"}
    /\ ~manager /\ ~routing
    /\ total_nodes = 0 /\ night_nodes = <<>> /\ morning_nodes = <<>>
    /\ ~time_dimension.created /\ ~count_dimension.created

C2_Witness == pc = "assertion_error" /\ args.days = 0 /\ ~manager

\* C3: with morning anchoring, in every returned assignment each night node
\* has the activation of its paired morning node, and an active night node is
\* directly followed by its morning node (order + 1), no real location between.
C3_NightMorningPairing ==
  (Solved /\ ~args.skip_mornings) =>
    \A k \in 1..Len(night_nodes) :
       LET n == NightIdx(k)
           m == MorningIdx(k)
       IN /\ Active(n) = Active(m)
          /\ Active(n) =>
               /\ solution.next[n] = m
               /\ solution.count[m] = solution.count[n] + 1
               /\ ~\E r \in RealIdx :
                     /\ Active(r)
                     /\ solution.count[n] < solution.count[r]
                     /\ solution.count[r] < solution.count[m]

C3_Witness ==
  /\ Solved /\ ~args.skip_mornings /\ Len(night_nodes) >= 1
  /\ Active(NightIdx(1)) /\ solution.next[NightIdx(1)] = MorningIdx(1)
  /\ \E r \in RealIdx : Active(r)

\* C4: in every returned assignment the active night nodes are a prefix of
\* the night range (active(i) >= active(j) for i before j), and likewise the
\* active morning nodes.
C4_DayMonotonic ==
  Solved =>
    /\ \A i \in 1..Len(night_nodes) : \A j \in (i + 1)..Len(night_nodes) :
          ActiveFlag(NightIdx(i)) >= ActiveFlag(NightIdx(j))
    /\ \A i \in 1..Len(morning_nodes) : \A j \in (i + 1)..Len(morning_nodes) :
          ActiveFlag(MorningIdx(i)) >= ActiveFlag(MorningIdx(j))

C4_Witness ==
  /\ Solved /\ Len(night_nodes) >= 2
  /\ Active(NightIdx(1)) /\ ~Active(NightIdx(2))

\* C5: in a returned assignment the Time range of every scheduled real
\* location (nodes 2..num_real-1), night node and morning node lies within
\* [day_start, day_end]; the start's Time is >= day_start, the end's <= day_end.
OnRoute == {i \in DOMAIN solution.time_min : TRUE}

C5_TimeWindows ==
  Solved =>
    \A i \in OnRoute :
       LET node == IndexToNode(total_nodes, i)
       IN /\ node >= 2 =>
               /\ day_start <= solution.time_min[i]
               /\ solution.time_min[i] <= solution.time_max[i]
               /\ solution.time_max[i] <= day_end
          /\ node = 0 => solution.time_min[i] >= day_start
          /\ node = 1 => solution.time_max[i] <= day_end

C5_Witness ==
  /\ Solved /\ day_start > 0 /\ Len(night_nodes) >= 1
  /\ Active(NightIdx(1))
  /\ \E r \in RealIdx : Active(r)

\* C6: the Dropped list holds exactly the real locations >= 2 whose successor
\* is themselves; never the depots 0 and 1, never a night or morning node,
\* also when those are inactive.
C6_DroppedList ==
  (pc \in {"walk", "done"} /\ solution.found) =>
    /\ SeqRange(result.Dropped) =
         {n \in 2..(num_nodes - 1) :
            solution.next[NodeToIndex(total_nodes, n)]
              = NodeToIndex(total_nodes, n)}
    /\ Cardinality(SeqRange(result.Dropped)) = Len(result.Dropped)
    /\ 0 \notin SeqRange(result.Dropped)
    /\ 1 \notin SeqRange(result.Dropped)
    /\ SeqRange(result.Dropped) \cap SeqRange(night_nodes) = {}
    /\ SeqRange(result.Dropped) \cap SeqRange(morning_nodes) = {}

C6_Witness ==
  /\ pc = "walk" /\ solution.found
  /\ Len(result.Dropped) >= 1
  /\ Len(night_nodes) >= 1 /\ ~Active(NightIdx(1))
  /\ \E r \in RealIdx : Active(r)

\* C7: in a returned assignment the minimum Time of every scheduled morning
\* node equals day_start.
C7_MorningAnchored ==
  Solved =>
    \A k \in 1..Len(morning_nodes) :
       Active(MorningIdx(k)) => solution.time_min[MorningIdx(k)] = day_start

\* C8 as stated: with 0 <= day_start < day_end the slack bound of the Time
\* dimension is the usable span day_end - day_start and non-negative, the
\* cumulative bound is day_end, and the start is not forced to zero.
C8_SlackIsSpan ==
  (time_dimension.created /\ 0 <= day_start /\ day_start < day_end) =>
    /\ time_dimension.slack_max = day_end - day_start
    /\ time_dimension.slack_max >= 0
    /\ time_dimension.capacity = day_end
    /\ ~time_dimension.fix_start_cumul_to_zero

\* C8 amended: with 0 <= day_start < day_end the slack bound of the Time
\* dimension is the usable span less day_start, day_end - 2*day_start, which
\* is non-negative exactly when 2*day_start <= day_end; the cumulative bound
\* is day_end, and the start is not forced to zero.
C8_TimeDimensionBounds ==
  (time_dimension.created /\ 0 <= day_start /\ day_start < day_end) =>
    /\ time_dimension.slack_max = day_end - 2 * day_start
    /\ (time_dimension.slack_max >= 0) <=> (2 * day_start <= day_end)
    /\ time_dimension.capacity = day_end
    /\ ~time_dimension.fix_start_cumul_to_zero

C8_Witness ==
  /\ time_dimension.created /\ 0 < day_start /\ day_start < day_end
  /\ time_dimension.slack_max < day_end - day_start

\* C9: for flags a_i, a_j in {0,1} and orders c_i, c_j in 0..total_nodes+1 the
\* product constraint holds exactly when (a_i = 1 and a_j = 1) implies
\* c_i <= c_j; with an inactive node it reads 0 <= 0.
C9_ConditionalOrdering ==
  (flags.set /\ flags.evaluated) =>
    /\ flags.holds <=>
         ((flags.ai = 1 /\ flags.aj = 1) => flags.ci <= flags.cj)
    /\ (flags.ai = 0 \/ flags.aj = 0) =>
         /\ flags.ci * flags.ai * flags.aj = 0
         /\ flags.cj * flags.ai * flags.aj = 0
         /\ flags.holds
    /\ (flags.ai = 1 /\ flags.aj = 1 /\ flags.holds) => flags.ci <= flags.cj

C9_Witness ==
  /\ flags.set /\ flags.evaluated
  /\ flags.ai = 1 /\ flags.aj = 1 /\ flags.ci > flags.cj /\ ~flags.holds

\* C10: the decoder walk ends, and then Scheduled starts with the start depot,
\* lists each node of the route once in successor order with night and morning
\* nodes labelled, ends with the terminal node appended once, has as many
\* entries as there are active nodes, and holds no self-looped node.
EntryIdx(k) == NodeToIndex(total_nodes, result.Scheduled[k][1].node)

ScheduledOK ==
  LET sched == result.Scheduled
      n == Len(sched)
  IN /\ n >= 2
     /\ sched[1][1] = [text |-> "", node |-> 0]
     /\ sched[n][1] = [text |-> "", node |-> 1]
     /\ \A k \in 1..(n - 1) :
           /\ EntryIdx(k) # RoutingEnd(total_nodes)
           /\ Active(EntryIdx(k))
           /\ EntryIdx(k + 1) = solution.next[EntryIdx(k)]
     /\ \A k \in 1..n : \A l \in 1..n : EntryIdx(k) = EntryIdx(l) => k = l
     /\ n = Cardinality({i \in DOMAIN solution.next : Active(i)}) + 1
     /\ \A k \in 1..n :
           LET e == sched[k][1]
           IN /\ e.node \in SeqRange(night_nodes) <=> e.text = "Overnight at"
              /\ e.node \in SeqRange(morning_nodes)
                   <=> e.text = "Starting day at"
              /\ sched[k][2] = k - 1

C10_DecoderWalk == (pc = "walk") ~> (pc = "done" /\ ScheduledOK)

C10_Witness ==
  /\ pc = "done" /\ solution.found /\ ScheduledOK
  /\ Len(result.Scheduled) >= 5
  /\ \E k \in 1..Len(result.Scheduled) :
        result.Scheduled[k][1].text = "Overnight at"
  /\ Len(result.Dropped) >= 1
====
